---- MODULE Spec2Model ----
(***************************************************************************)
(* The upload store of csv-upload, in its two deployments:                 *)
(*   "fastapi" - backend/main.py (FastAPI + SQLAlchemy, SQLite by default) *)
(*   "django"  - backend/server/uploads (Django REST framework ModelViewSet)*)
(* A state is the content of the uploads table, the id generator of the    *)
(* database, the clock, and the response to the last request.              *)
(***************************************************************************)
EXTENDS Integers, Sequences, FiniteSets, TLC

\* ------------------------------------------------------------------ limits
MAX_ROWS == 10000
MAX_MAPPING_KEYS == 1000
MAX_WORKBOOK_LEN == 255
MAX_PAGE_SIZE == 100
DEFAULT_LIMIT == 50
DRF_MAX_LIMIT == 500

\* bounds of the model: number of Create requests that are let through,
\* in a run of everyday requests and in a run of requests at the limits
MaxCreates == 2
MaxCreatesLimits == 1
\* number of requests that are in flight together on one record
MaxRequests == 2
MaxCallers == 3
MaxChunks == 5

\* ------------------------------------------------------ request field values
\* A workbook as it arrives in a JSON body: absent, a number, or a string.
WbAbsent == [kind |-> "absent", s |-> ""]
WbStr(s) == [kind |-> "str", s |-> s]

W1 == "w"
W2 == W1 \o W1
W4 == W2 \o W2
W8 == W4 \o W4
W16 == W8 \o W8
W32 == W16 \o W16
W64 == W32 \o W32
W128 == W64 \o W64
\* names of exactly MAX_WORKBOOK_LEN and MAX_WORKBOOK_LEN + 1 characters
NameAtLimit == W128 \o W64 \o W32 \o W16 \o W8 \o W4 \o W2 \o W1
LongName == W128 \o W128

\* One uploaded row: a dict str -> str, kept as its ordered key/value pairs.
Row1 == << [k |-> "a", v |-> "1"] >>
Row2 == << [k |-> "a", v |-> "2"] >>
EmptyRow == << >>

\* A list of rows is kept run-length encoded: the run [row |-> r, n |-> c]
\* stands for c consecutive elements equal to r (c >= 1, adjacent runs differ).
\* len() and element-wise conversions are exact on this form.
Run(r, c) == [row |-> r, n |-> c]

RECURSIVE len(_)
len(items) == IF items = << >> THEN 0 ELSE Head(items).n + len(Tail(items))

RowsAbsent == [kind |-> "absent", items |-> << >>]
RowsNum == [kind |-> "num", items |-> << >>]
RowsList(items) == [kind |-> "list", items |-> items]

TwoRows == << Run(Row1, 1), Run(Row2, 1) >>
SwappedRows == << Run(Row2, 1), Run(Row1, 1) >>
OneRow == << Run(Row2, 1) >>
RowsAtLimit == << Run(Row1, MAX_ROWS) >>
RowsOverLimit == << Run(Row1, MAX_ROWS), Run(Row2, 1) >>

\* A mapping: a dict str -> Optional[str]; a value is <<s>> or << >> for null.
MapAbsent == [kind |-> "absent", pairs |-> << >>]
MapDict(pairs) == [kind |-> "dict", pairs |-> pairs]

Mapping1 == << [k |-> "a", v |-> <<"colA">>] >>
Mapping2 == << [k |-> "a", v |-> << >>], [k |-> "b", v |-> <<"colB">>] >>
MappingOverLimit == [i \in 1..(MAX_MAPPING_KEYS + 1) |-> [k |-> "k" \o ToString(i), v |-> <<"c">>]]

\* row_count as a client may send it along (-1: not sent)
NoClientCount == -1
ClientCount == 7

NoPayload == [workbook |-> WbAbsent, rows |-> RowsAbsent, mapping |-> MapAbsent, row_count |-> NoClientCount]

\* ------------------------------------------------------------------- JSON
\* json.dumps of a dict, as the token stream of its text:
\*   { "k1" : v1 , "k2" : v2 }      with v a string token or null
Tok(t, s) == [t |-> t, s |-> s]

json_value(v) == IF v = << >> THEN Tok("null", "") ELSE Tok("str", v[1])

\* pairs: the keys with the tokens of their values
json_dumps_dict(pairs) ==
    IF Len(pairs) = 0 THEN << Tok("{", ""), Tok("}", "") >>
    ELSE [j \in 1..(4 * Len(pairs) + 1) |->
            IF j = 1 THEN Tok("{", "")
            ELSE LET i == ((j - 2) \div 4) + 1
                     r == (j - 2) % 4
                 IN CASE r = 0 -> Tok("str", pairs[i].k)
                      [] r = 1 -> Tok(":", "")
                      [] r = 2 -> pairs[i].v
                      [] OTHER -> IF i = Len(pairs) THEN Tok("}", "") ELSE Tok(",", "")]

row_value(v) == Tok("str", v)

\* json.dumps(payload.rows): the text of each element, in order
json_dumps_rows(items) ==
    [i \in 1..Len(items) |->
        Run(json_dumps_dict([j \in 1..Len(items[i].row) |->
                                [k |-> items[i].row[j].k, v |-> row_value(items[i].row[j].v)]]),
            items[i].n)]
json_dumps_mapping(pairs) ==
    json_dumps_dict([j \in 1..Len(pairs) |-> [k |-> pairs[j].k, v |-> json_value(pairs[j].v)]])

\* json.loads of such a text
\* (mutant) null is read back as an empty string
python_value_drops_null(tok) == << tok.s >>

python_value(tok) == IF tok.t = "null" THEN << >> ELSE << tok.s >>
python_str(tok) == tok.s

\* the keys of the text with the tokens of their values
json_loads_dict(toks) ==
    [i \in 1..((Len(toks) - 1) \div 4) |-> [k |-> toks[4 * i - 2].s, v |-> toks[4 * i]]]

json_loads_rows(text) ==
    [i \in 1..Len(text) |->
        LET d == json_loads_dict(text[i].row)
        IN Run([j \in 1..Len(d) |-> [k |-> d[j].k, v |-> python_str(d[j].v)]], text[i].n)]
json_loads_mapping(text) ==
    LET d == json_loads_dict(text)
    IN [j \in 1..Len(d) |-> [k |-> d[j].k, v |-> python_value(d[j].v)]]

\* ------------------------------------------------------------------ state
VARIABLES
    profile,     \* the requests of the run: everyday ones ("crud"), ones at the limits
                 \* ("limits"), ones in flight together on one record ("race"),
                 \* ones served by a database that may fail ("faults"),
                 \* questions put to the ask view of the Django service ("ask"),
                 \* calls of VannaService.ask ("vanna"), calls of
                 \* start_vanna_fastapi_server from several threads ("server"),
                 \* or a chat_sse request served by a WSGI server ("sse")
    impl,        \* which service runs: "fastapi" or "django"
    is_sqlite,   \* main.py: DATABASE_URL is the default SQLite file
    store,       \* the uploads table: id -> record
    seq,         \* last value of the database's id sequence (non-SQLite)
    now,         \* the clock read by created_at
    issued,      \* history: the ids assigned by Create, in order
    gone,        \* history: the ids removed by a successful Delete and not assigned since
    last,        \* the response to the last request
    reqs,        \* main.py requests in flight: their session and how far the handler got
    last_commit, \* history: the request whose db.commit() wrote to the table last
    asked,       \* views.py: the last request to ask, what its calls came to, its response
    called,      \* vanna_service.py: the last call of VannaService.ask and what it came to
    _started,    \* vanna_fastapi_server.py: the module's flag
    _lock,       \* vanna_fastapi_server.py: the caller holding the module's lock, 0 when free
    pc,          \* where each caller of start_vanna_fastapi_server is
    threads,     \* history: the server threads started in the process
    passed,      \* history: the calls that went past the check of _started
    stage,       \* vanna_proxy_views.py: how far the serving of a chat_sse request got
    upstream,    \* the upstream response: "none", "open" or "closed"
    gen,         \* the generator gen(): "none", "created", "running", "suspended", "finished"
    client,      \* the client of the request: "connected" or "gone"
    reads,       \* history: the chunks read from upstream
    gone_at,     \* history: the chunks read when the client disconnected, -1 before
    noticed      \* history: a write to the client has failed

\* what the requests in flight are made of
in_flight == << reqs, last_commit >>

\* what the Vanna side of the Django service is made of
ask_side == << asked, called >>
\* what the start of the internal Vanna server is made of
server_side == << _started, _lock, pc, threads, passed >>
\* what the chat_sse pass-through is made of
sse_side == << stage, upstream, gen, client, reads, gone_at, noticed >>
outside == << ask_side, server_side, sse_side >>

vars == << profile, impl, is_sqlite, store, seq, now, issued, gone, last, in_flight, outside >>

EmptyStore == [i \in {} |-> 0]

NoResponse == [op |-> "none", id |-> 0, status |-> 0, body |-> << >>,
               items |-> << >>, total |-> -1, sent |-> {}, req |-> NoPayload]

\* no row loaded
NoRecord == [id |-> 0, workbook |-> "", rows |-> << >>, mapping |-> << >>,
             row_count |-> 0, created_at |-> 0]
\* a request that has not arrived
NoRequest == [op |-> "none", payload |-> NoPayload, pc |-> "idle",
              loaded |-> NoRecord, rec |-> NoRecord, status |-> 0]
NoRequests == [i \in 1..MaxRequests |-> NoRequest]

\* no question asked, VannaService.ask not called
NoAsk == [asked |-> FALSE]
NoCall == [called |-> FALSE]
\* the threads that may call start_vanna_fastapi_server
Callers == 1..MaxCallers
InitOutside ==
    /\ asked = NoAsk
    /\ called = NoCall
    /\ _started = FALSE
    /\ _lock = 0
    /\ pc = [i \in Callers |-> "idle"]
    /\ threads = 0
    /\ passed = 0
    /\ stage = "idle"
    /\ upstream = "none"
    /\ gen = "none"
    /\ client = "connected"
    /\ reads = 0
    /\ gone_at = -1
    /\ noticed = FALSE

InitStore ==
    /\ impl \in {"fastapi", "django"}
    /\ is_sqlite \in (IF impl = "fastapi" THEN BOOLEAN ELSE {FALSE})
    /\ store = EmptyStore
    /\ seq = 0
    /\ now = 0
    /\ issued = << >>
    /\ gone = {}
    /\ last = NoResponse
    /\ reqs = NoRequests
    /\ last_commit = 0
    /\ InitOutside

Init == profile = "crud" /\ InitStore
InitLimits == profile = "limits" /\ InitStore

\* ---------------------------------------------------------------- helpers
Max(S) == CHOOSE m \in S : \A x \in S : x <= m

\* the table after INSERT or UPDATE of one row
Saved(id, rec) == [i \in (DOMAIN store) \cup {id} |-> IF i = id THEN rec ELSE store[i]]
\* the table after DELETE of one row
Removed(id) == [i \in (DOMAIN store) \ {id} |-> store[i]]

\* The id the database gives to an inserted row.  main.py declares
\* id = Column(Integer, primary_key=True) and nothing more: on SQLite that is
\* an alias of the rowid, one more than the largest id in the table; the other
\* databases (and Django's AutoField) draw from a sequence.
NewId ==
    IF impl = "fastapi" /\ is_sqlite
    THEN (IF DOMAIN store = {} THEN 1 ELSE Max(DOMAIN store) + 1)
    ELSE seq + 1

Result(status, body, st) == [status |-> status, body |-> body, store |-> st]
Detail(msg) == [detail |-> msg]

\* ------------------------------------------------- main.py: schemas, limits
UploadIn(p) ==
    /\ p.workbook.kind = "str"
    /\ p.rows.kind = "list"
    /\ p.mapping.kind = "dict"

UploadUpdate(p) ==
    /\ p.workbook.kind \in {"absent", "str"}
    /\ p.rows.kind \in {"absent", "list"}
    /\ p.mapping.kind \in {"absent", "dict"}

UploadOut(rec) == [id |-> rec.id, workbook |-> rec.workbook,
                   row_count |-> rec.row_count, created_at |-> rec.created_at]

\* the HTTPException validate_payload raises, or Passed
Passed == [status |-> 0, detail |-> ""]
HTTPException(status, detail) == [status |-> status, detail |-> detail]

\* (mutant) the length of workbook is not checked
validate_payload_no_length(workbook, rows, mapping) ==
    IF workbook.s = "" \/ workbook.kind # "str" THEN HTTPException(422, "workbook is required")
    ELSE IF rows.kind # "list" THEN HTTPException(422, "rows must be a list")
    ELSE IF len(rows.items) > MAX_ROWS THEN HTTPException(413, "Too many rows")
    ELSE IF mapping.kind # "dict" THEN HTTPException(422, "mapping must be an object")
    ELSE IF Len(mapping.pairs) > MAX_MAPPING_KEYS THEN HTTPException(422, "Too many mapping keys")
    ELSE Passed

validate_payload(workbook, rows, mapping) ==
    IF workbook.s = "" \/ workbook.kind # "str" THEN HTTPException(422, "workbook is required")
    ELSE IF Len(workbook.s) > MAX_WORKBOOK_LEN THEN HTTPException(422, "workbook too long")
    ELSE IF rows.kind # "list" THEN HTTPException(422, "rows must be a list")
    ELSE IF len(rows.items) > MAX_ROWS THEN HTTPException(413, "Too many rows")
    ELSE IF mapping.kind # "dict" THEN HTTPException(422, "mapping must be an object")
    ELSE IF Len(mapping.pairs) > MAX_MAPPING_KEYS THEN HTTPException(422, "Too many mapping keys")
    ELSE Passed

\* ------------------------------------------------------ main.py: handlers
create_upload(payload) ==
    IF ~UploadIn(payload) THEN Result(422, Detail("request body does not fit the schema"), store)
    ELSE LET v == validate_payload(payload.workbook, payload.rows, payload.mapping) IN
         IF v # Passed THEN Result(v.status, Detail(v.detail), store)
         ELSE LET record == [id |-> NewId,
                             workbook |-> payload.workbook.s,
                             rows |-> json_dumps_rows(payload.rows.items),
                             mapping |-> json_dumps_mapping(payload.mapping.pairs),
                             row_count |-> len(payload.rows.items),
                             created_at |-> now]
              IN Result(200, UploadOut(record), Saved(record.id, record))

get_upload(upload_id) ==
    IF upload_id \notin DOMAIN store THEN Result(404, Detail("Not found"), store)
    ELSE Result(200, UploadOut(store[upload_id]), store)

\* (mutant) the row is not deleted
delete_upload_keeps_row(upload_id) ==
    IF upload_id \notin DOMAIN store THEN Result(404, Detail("Not found"), store)
    ELSE Result(204, << >>, store)

delete_upload(upload_id) ==
    IF upload_id \notin DOMAIN store THEN Result(404, Detail("Not found"), store)
    ELSE Result(204, << >>, Removed(upload_id))

\* (mutant) the payload is validated before the record is looked up
put_upload_validates_first(upload_id, payload) ==
    IF ~UploadIn(payload) THEN Result(422, Detail("request body does not fit the schema"), store)
    ELSE LET v == validate_payload(payload.workbook, payload.rows, payload.mapping) IN
         IF v # Passed THEN Result(v.status, Detail(v.detail), store)
         ELSE IF upload_id \notin DOMAIN store THEN Result(404, Detail("Not found"), store)
         ELSE LET rec == [store[upload_id] EXCEPT
                             !.workbook = payload.workbook.s,
                             !.rows = json_dumps_rows(payload.rows.items),
                             !.mapping = json_dumps_mapping(payload.mapping.pairs),
                             !.row_count = len(payload.rows.items)]
              IN Result(200, UploadOut(rec), Saved(upload_id, rec))

put_upload(upload_id, payload) ==
    IF ~UploadIn(payload) THEN Result(422, Detail("request body does not fit the schema"), store)
    ELSE IF upload_id \notin DOMAIN store THEN Result(404, Detail("Not found"), store)
    ELSE LET v == validate_payload(payload.workbook, payload.rows, payload.mapping) IN
         IF v # Passed THEN Result(v.status, Detail(v.detail), store)
         ELSE LET rec == [store[upload_id] EXCEPT
                             !.workbook = payload.workbook.s,
                             !.rows = json_dumps_rows(payload.rows.items),
                             !.mapping = json_dumps_mapping(payload.mapping.pairs),
                             !.row_count = len(payload.rows.items)]
              IN Result(200, UploadOut(rec), Saved(upload_id, rec))

patch_upload(upload_id, payload) ==
    IF ~UploadUpdate(payload) THEN Result(422, Detail("request body does not fit the schema"), store)
    ELSE IF upload_id \notin DOMAIN store THEN Result(404, Detail("Not found"), store)
    ELSE LET old == store[upload_id]
             new_workbook == IF payload.workbook.kind # "absent" THEN payload.workbook
                             ELSE WbStr(old.workbook)
             new_rows == IF payload.rows.kind # "absent" THEN payload.rows
                         ELSE RowsList(json_loads_rows(old.rows))
             new_mapping == IF payload.mapping.kind # "absent" THEN payload.mapping
                            ELSE MapDict(json_loads_mapping(old.mapping))
             v == validate_payload(new_workbook, new_rows, new_mapping)
         IN IF v # Passed THEN Result(v.status, Detail(v.detail), store)
            ELSE LET rec == [old EXCEPT
                                !.workbook = new_workbook.s,
                                !.rows = json_dumps_rows(new_rows.items),
                                !.mapping = json_dumps_mapping(new_mapping.pairs),
                                !.row_count = len(new_rows.items)]
                 IN Result(200, UploadOut(rec), Saved(upload_id, rec))

\* ----------------------------------------- uploads/serializers.py, models.py
\* ModelSerializer field validation; TRUE when a field error is reported.
\* workbook: CharField(max_length=255), required, not blank;
\* rows, mapping: JSONField, required.
field_errors(p, partial) ==
    {f \in {"workbook", "rows", "mapping"} :
        \/ f = "workbook" /\ p.workbook.kind = "absent" /\ ~partial
        \/ f = "workbook" /\ p.workbook.kind = "str" /\ p.workbook.s = ""
        \/ f = "workbook" /\ p.workbook.kind = "str" /\ Len(p.workbook.s) > MAX_WORKBOOK_LEN
        \/ f = "rows" /\ p.rows.kind = "absent" /\ ~partial
        \/ f = "mapping" /\ p.mapping.kind = "absent" /\ ~partial}

Errors(fields) == [errors |-> fields]

\* (mutant) row_count is not read-only
to_internal_value_keeps_count(p) ==
    [workbook |-> p.workbook, rows |-> p.rows, mapping |-> p.mapping, row_count |-> p.row_count]

\* the validated attrs: read_only_fields (id, row_count, created_at) are dropped
to_internal_value(p) ==
    [workbook |-> p.workbook,
     rows |-> p.rows,
     mapping |-> p.mapping,
     row_count |-> NoClientCount]

\* UploadSerializer.validate: len(rows) raises TypeError on a number
validate_raises(attrs) == attrs.rows.kind = "num"

UploadSerializer_validate(attrs) ==
    IF attrs.rows.kind # "absent"
    THEN [attrs EXCEPT !.row_count = len(attrs.rows.items)]
    ELSE attrs

UploadSerializer(rec) == [id |-> rec.id, workbook |-> rec.workbook, rows |-> rec.rows,
                          mapping |-> rec.mapping, row_count |-> rec.row_count,
                          created_at |-> rec.created_at]

UploadListSerializer(rec) == [id |-> rec.id, workbook |-> rec.workbook,
                              mapping |-> rec.mapping, row_count |-> rec.row_count,
                              created_at |-> rec.created_at]

UploadCreateResponseSerializer(rec) == [id |-> rec.id, workbook |-> rec.workbook,
                                        mapping |-> rec.mapping, row_count |-> rec.row_count,
                                        created_at |-> rec.created_at]

\* ---------------------------------------------- uploads/views.py: viewset
viewset_create(payload) ==
    IF field_errors(payload, FALSE) # {} THEN Result(400, Errors(field_errors(payload, FALSE)), store)
    ELSE IF validate_raises(to_internal_value(payload)) THEN Result(500, Detail("TypeError"), store)
    ELSE LET attrs == UploadSerializer_validate(to_internal_value(payload))
             instance == [id |-> NewId,
                          workbook |-> attrs.workbook.s,
                          rows |-> attrs.rows.items,
                          mapping |-> attrs.mapping.pairs,
                          row_count |-> attrs.row_count,
                          created_at |-> now]
         IN Result(201, UploadCreateResponseSerializer(instance), Saved(instance.id, instance))

viewset_retrieve(pk) ==
    IF pk \notin DOMAIN store THEN Result(404, Detail("Not found."), store)
    ELSE Result(200, UploadSerializer(store[pk]), store)

viewset_destroy(pk) ==
    IF pk \notin DOMAIN store THEN Result(404, Detail("Not found."), store)
    ELSE Result(204, << >>, Removed(pk))

\* (mutant) update stamps the record with the time of the update
serializer_update_sets_created_at(instance, attrs) ==
    [instance EXCEPT
        !.workbook = IF attrs.workbook.kind # "absent" THEN attrs.workbook.s ELSE @,
        !.rows = IF attrs.rows.kind # "absent" THEN attrs.rows.items ELSE @,
        !.mapping = IF attrs.mapping.kind # "absent" THEN attrs.mapping.pairs ELSE @,
        !.row_count = IF attrs.row_count # NoClientCount THEN attrs.row_count ELSE @,
        !.created_at = now]

\* ModelSerializer.update: every validated attr is set on the instance
serializer_update(instance, attrs) ==
    [instance EXCEPT
        !.workbook = IF attrs.workbook.kind # "absent" THEN attrs.workbook.s ELSE @,
        !.rows = IF attrs.rows.kind # "absent" THEN attrs.rows.items ELSE @,
        !.mapping = IF attrs.mapping.kind # "absent" THEN attrs.mapping.pairs ELSE @,
        !.row_count = IF attrs.row_count # NoClientCount THEN attrs.row_count ELSE @]

viewset_update(pk, payload, partial) ==
    IF pk \notin DOMAIN store THEN Result(404, Detail("Not found."), store)
    ELSE IF field_errors(payload, partial) # {} THEN Result(400, Errors(field_errors(payload, partial)), store)
    ELSE IF validate_raises(to_internal_value(payload)) THEN Result(500, Detail("TypeError"), store)
    ELSE LET attrs == UploadSerializer_validate(to_internal_value(payload))
             instance == serializer_update(store[pk], attrs)
         IN Result(200, UploadSerializer(instance), Saved(pk, instance))

\* --------------------------------------------------------------- listing
RECURSIVE OrderByIdDesc(_)
OrderByIdDesc(S) == IF S = {} THEN << >> ELSE << Max(S) >> \o OrderByIdDesc(S \ {Max(S)})

Min2(a, b) == IF a < b THEN a ELSE b
Max2(a, b) == IF a > b THEN a ELSE b

\* (mutant) the slice takes the row at offset+limit as well
Page_through_end(ids, offset, limit) == SubSeq(ids, offset + 1, Min2(Len(ids), offset + limit + 1))

\* rows offset+1 .. offset+limit of a result
Page(ids, offset, limit) == SubSeq(ids, offset + 1, Min2(Len(ids), offset + limit))

QAbsent == [kind |-> "absent", n |-> 0]
QInt(n) == [kind |-> "int", n |-> n]

\* the records a workbook query parameter selects (an empty one selects all)
Filtered(workbook) ==
    IF workbook.kind = "str" /\ workbook.s # ""
    THEN {i \in DOMAIN store : store[i].workbook = workbook.s}
    ELSE DOMAIN store

ListResult(status, items, total) == [status |-> status, items |-> items, total |-> total]

\* (mutant) the total is the size of the page
list_uploads_counts_page(limit, offset, workbook) ==
    LET lim == IF limit.kind = "absent" THEN DEFAULT_LIMIT ELSE limit.n
        off == IF offset.kind = "absent" THEN 0 ELSE offset.n
    IN IF lim < 1 \/ lim > MAX_PAGE_SIZE \/ off < 0 THEN ListResult(422, << >>, -1)
       ELSE LET q == Filtered(workbook)
                ids == Page(OrderByIdDesc(q), off, lim)
            IN ListResult(200, [i \in 1..Len(ids) |-> UploadOut(store[ids[i]])], Len(ids))

\* main.py list_uploads: limit = Query(50, ge=1, le=MAX_PAGE_SIZE), offset = Query(0, ge=0)
list_uploads(limit, offset, workbook) ==
    LET lim == IF limit.kind = "absent" THEN DEFAULT_LIMIT ELSE limit.n
        off == IF offset.kind = "absent" THEN 0 ELSE offset.n
    IN IF lim < 1 \/ lim > MAX_PAGE_SIZE \/ off < 0 THEN ListResult(422, << >>, -1)
       ELSE LET q == Filtered(workbook)
                ids == Page(OrderByIdDesc(q), off, lim)
            IN ListResult(200, [i \in 1..Len(ids) |-> UploadOut(store[ids[i]])], Cardinality(q))

\* views.py UploadViewSet.list
viewset_list(limit, offset, workbook) ==
    LET qs == Filtered(workbook)
        lim == Max2(1, Min2(IF limit.kind = "absent" THEN DEFAULT_LIMIT ELSE limit.n, DRF_MAX_LIMIT))
        off == Max2(0, IF offset.kind = "absent" THEN 0 ELSE offset.n)
        ids == Page(OrderByIdDesc(qs), off, lim)
    IN ListResult(200, [i \in 1..Len(ids) |-> UploadListSerializer(store[ids[i]])], Cardinality(qs))

\* ------------------------------------------- the operations of the store
Create(payload) == IF impl = "fastapi" THEN create_upload(payload) ELSE viewset_create(payload)
Get(id) == IF impl = "fastapi" THEN get_upload(id) ELSE viewset_retrieve(id)
Delete(id) == IF impl = "fastapi" THEN delete_upload(id) ELSE viewset_destroy(id)
Replace(id, payload) == IF impl = "fastapi" THEN put_upload(id, payload) ELSE viewset_update(id, payload, FALSE)
Patch(id, payload) == IF impl = "fastapi" THEN patch_upload(id, payload) ELSE viewset_update(id, payload, TRUE)
List(limit, offset, workbook) ==
    IF impl = "fastapi" THEN list_uploads(limit, offset, workbook) ELSE viewset_list(limit, offset, workbook)

Succeeded(status) == status \in {200, 201, 204}

\* request inputs of the model
WorkbookIn ==
    CASE profile = "crud" -> {WbAbsent, WbStr("Q1"), WbStr("Q2")}
      [] profile = "race" -> {WbAbsent, WbStr("Q2")}
      [] profile = "faults" -> {WbAbsent, WbStr("Q1")}
      [] OTHER -> {WbAbsent, WbStr(""), WbStr("Q1"), WbStr(NameAtLimit), WbStr(LongName)}
RowsIn ==
    CASE profile = "crud" -> {RowsAbsent, RowsList(<< >>), RowsList(TwoRows)}
      [] profile = "race" -> {RowsAbsent, RowsList(OneRow), RowsList(SwappedRows)}
      [] profile = "faults" -> {RowsAbsent, RowsList(TwoRows)}
      [] OTHER -> {RowsAbsent, RowsNum, RowsList(TwoRows), RowsList(RowsAtLimit), RowsList(RowsOverLimit)}
MappingIn ==
    CASE profile = "crud" -> {MapAbsent, MapDict(Mapping2)}
      [] profile = "race" -> {MapAbsent, MapDict(Mapping2)}
      [] profile = "faults" -> {MapAbsent, MapDict(Mapping1)}
      [] OTHER -> {MapAbsent, MapDict(Mapping1)}
ClientCountIn == IF profile \in {"crud", "race", "faults"} THEN {NoClientCount} ELSE {NoClientCount, ClientCount}

Payloads == [workbook : WorkbookIn, rows : RowsIn, mapping : MappingIn, row_count : ClientCountIn]

CreatesAllowed == IF profile \in {"crud", "faults"} THEN MaxCreates ELSE MaxCreatesLimits
Ids == IF profile \in {"crud", "faults"} THEN 1..MaxCreates ELSE 1..(MaxCreatesLimits + 1)
LimitIn ==
    IF profile = "crud"
    THEN {QAbsent, QInt(1), QInt(MAX_PAGE_SIZE + 1), QInt(DRF_MAX_LIMIT + 1)}
    ELSE {QAbsent, QInt(0), QInt(MAX_PAGE_SIZE), QInt(DRF_MAX_LIMIT + 1)}
OffsetIn == IF profile = "crud" THEN {QAbsent, QInt(1), QInt(2)} ELSE {QAbsent, QInt(-1)}
FilterIn == IF profile = "crud" THEN {WbAbsent, WbStr(""), WbStr("Q1")} ELSE {WbAbsent}

\* the fields a request body carries
Sent(p) == {f \in {"workbook", "rows", "mapping", "row_count"} :
                \/ f = "workbook" /\ p.workbook.kind # "absent"
                \/ f = "rows" /\ p.rows.kind # "absent"
                \/ f = "mapping" /\ p.mapping.kind # "absent"
                \/ f = "row_count" /\ p.row_count # NoClientCount}

\* what is remembered of a request and its response: of a Create that stored
\* an upload, the body it sent; of a Patch that was applied, the fields it sent
Response(op, id, r, p) ==
    [op |-> op, id |-> id, status |-> r.status, body |-> r.body,
     items |-> << >>, total |-> -1,
     sent |-> IF op = "patch" /\ Succeeded(r.status) THEN Sent(p) ELSE {},
     req |-> IF op = "create" /\ Succeeded(r.status) THEN p ELSE NoPayload]

\* ----------------------------------------------------------------- actions
POST ==
    /\ \E payload \in Payloads :
        \E r \in {Create(payload)} :
        /\ Succeeded(r.status) => Len(issued) < CreatesAllowed
        /\ store' = r.store
        /\ IF Succeeded(r.status)
           THEN /\ issued' = Append(issued, r.body.id)
                /\ seq' = IF impl = "fastapi" /\ is_sqlite THEN seq ELSE seq + 1
                /\ now' = now + 1
                /\ gone' = gone \ {r.body.id}
                /\ last' = Response("create", r.body.id, r, payload)
           ELSE /\ UNCHANGED << issued, seq, now, gone >>
                /\ last' = Response("create", 0, r, payload)
    /\ UNCHANGED << profile, impl, is_sqlite, in_flight, outside >>

GET ==
    /\ \E id \in Ids :
        \E r \in {Get(id)} : last' = Response("get", id, r, NoPayload)
    /\ UNCHANGED << profile, impl, is_sqlite, store, seq, now, issued, gone, in_flight, outside >>

DELETE ==
    /\ \E id \in Ids :
        \E r \in {Delete(id)} :
        /\ store' = r.store
        /\ gone' = IF Succeeded(r.status) THEN gone \cup {id} ELSE gone
        /\ last' = Response("delete", id, r, NoPayload)
    /\ UNCHANGED << profile, impl, is_sqlite, seq, now, issued, in_flight, outside >>

PUT ==
    /\ \E id \in Ids, payload \in Payloads :
        \E r \in {Replace(id, payload)} :
        /\ store' = r.store
        /\ last' = Response("put", id, r, payload)
    /\ UNCHANGED << profile, impl, is_sqlite, seq, now, issued, gone, in_flight, outside >>

PATCH ==
    /\ \E id \in Ids, payload \in Payloads :
        \E r \in {Patch(id, payload)} :
        /\ store' = r.store
        /\ last' = Response("patch", id, r, payload)
    /\ UNCHANGED << profile, impl, is_sqlite, seq, now, issued, gone, in_flight, outside >>

LIST ==
    /\ \E limit \in LimitIn, offset \in OffsetIn, workbook \in FilterIn :
        \E r \in {List(limit, offset, workbook)} :
        last' = [op |-> "list", id |-> 0, status |-> r.status, body |-> << >>,
                 items |-> r.items, total |-> r.total, sent |-> {}, req |-> NoPayload]
    /\ UNCHANGED << profile, impl, is_sqlite, store, seq, now, issued, gone, in_flight, outside >>

Next == POST \/ GET \/ DELETE \/ PUT \/ PATCH \/ LIST

Spec == Init /\ [][Next]_vars
SpecLimits == InitLimits /\ [][Next]_vars

\* ------------------------------------ requests served by a failing database
InitFaults == profile = "faults" /\ InitStore

\* the exception db.commit() (or serializer.save()) raises when the write fails
DbError == "OperationalError"

\* the detail of the HTTPException create_upload raises for an exception e
FailedToSave(e) == << "Failed to save upload: ", e >>
\* an exception that leaves the handler: the framework answers a bare 500
Unhandled(e) == [unhandled |-> e]

\* what becomes of a request that would have been answered r when the write
\* it makes fails: nothing is stored, and the exception is either turned into
\* an HTTPException by the handler or leaves it
with_db_error(r, handler_catches) ==
    IF ~Succeeded(r.status) THEN r
    ELSE IF handler_catches THEN Result(500, Detail(FailedToSave(DbError)), store)
    ELSE Result(500, Unhandled(DbError), store)

\* create_upload has try/except Exception around the write; delete_upload,
\* put_upload and patch_upload, and the viewset, have none
CreateFailing(payload) ==
    IF impl = "fastapi" THEN with_db_error(create_upload(payload), TRUE)
    ELSE with_db_error(viewset_create(payload), FALSE)
DeleteFailing(id) ==
    IF impl = "fastapi" THEN with_db_error(delete_upload(id), FALSE)
    ELSE with_db_error(viewset_destroy(id), FALSE)
ReplaceFailing(id, payload) ==
    IF impl = "fastapi" THEN with_db_error(put_upload(id, payload), FALSE)
    ELSE with_db_error(viewset_update(id, payload, FALSE), FALSE)
PatchFailing(id, payload) ==
    IF impl = "fastapi" THEN with_db_error(patch_upload(id, payload), FALSE)
    ELSE with_db_error(viewset_update(id, payload, TRUE), FALSE)

POST_F ==
    /\ \E payload \in Payloads, db_fails \in BOOLEAN :
        \E r \in {IF db_fails THEN CreateFailing(payload) ELSE Create(payload)} :
        /\ Succeeded(r.status) => Len(issued) < CreatesAllowed
        /\ store' = r.store
        /\ IF Succeeded(r.status)
           THEN /\ issued' = Append(issued, r.body.id)
                /\ seq' = IF impl = "fastapi" /\ is_sqlite THEN seq ELSE seq + 1
                /\ now' = now + 1
                /\ gone' = gone \ {r.body.id}
                /\ last' = Response("create", r.body.id, r, payload)
           ELSE /\ UNCHANGED << issued, seq, now, gone >>
                /\ last' = Response("create", 0, r, payload)
    /\ UNCHANGED << profile, impl, is_sqlite, in_flight, outside >>

DELETE_F ==
    /\ \E id \in Ids, db_fails \in BOOLEAN :
        \E r \in {IF db_fails THEN DeleteFailing(id) ELSE Delete(id)} :
        /\ store' = r.store
        /\ gone' = IF Succeeded(r.status) THEN gone \cup {id} ELSE gone
        /\ last' = Response("delete", id, r, NoPayload)
    /\ UNCHANGED << profile, impl, is_sqlite, seq, now, issued, in_flight, outside >>

PUT_F ==
    /\ \E id \in Ids, payload \in Payloads, db_fails \in BOOLEAN :
        \E r \in {IF db_fails THEN ReplaceFailing(id, payload) ELSE Replace(id, payload)} :
        /\ store' = r.store
        /\ last' = Response("put", id, r, payload)
    /\ UNCHANGED << profile, impl, is_sqlite, seq, now, issued, gone, in_flight, outside >>

PATCH_F ==
    /\ \E id \in Ids, payload \in Payloads, db_fails \in BOOLEAN :
        \E r \in {IF db_fails THEN PatchFailing(id, payload) ELSE Patch(id, payload)} :
        /\ store' = r.store
        /\ last' = Response("patch", id, r, payload)
    /\ UNCHANGED << profile, impl, is_sqlite, seq, now, issued, gone, in_flight, outside >>

NextFaults == POST_F \/ DELETE_F \/ PUT_F \/ PATCH_F

SpecFaults == InitFaults /\ [][NextFaults]_vars

\* ------------------------- main.py: requests in flight together on one record
\* Each request runs its handler in a thread of its own with a Session of its
\* own (get_db); the steps of a handler that touch the database are db.get,
\* db.commit and db.refresh.
RaceId == 1

\* the record the racing requests are about, stored by an earlier Create
StoredUpload == [id |-> RaceId, workbook |-> "Q1",
                 rows |-> json_dumps_rows(TwoRows),
                 mapping |-> json_dumps_mapping(Mapping2),
                 row_count |-> 2, created_at |-> 0]

InitRace ==
    /\ profile = "race"
    /\ impl = "fastapi"
    /\ is_sqlite = TRUE
    /\ store = [i \in {RaceId} |-> StoredUpload]
    /\ seq = 0
    /\ now = 1
    /\ issued = << RaceId >>
    /\ gone = {}
    /\ last = NoResponse
    /\ reqs = NoRequests
    /\ last_commit = 0
    /\ InitOutside

Columns == {"workbook", "rows", "mapping", "row_count"}

\* the attributes of a loaded row whose value the handler has changed: the
\* Session writes these columns, and only these, in its UPDATE
dirty(loaded, rec) == {c \in Columns : rec[c] # loaded[c]}

\* UPDATE uploads SET <dirty columns> WHERE id = :id
flush_update(id, loaded, rec) ==
    [store EXCEPT ![id] = [c \in DOMAIN @ |-> IF c \in dirty(loaded, rec) THEN rec[c] ELSE @[c]]]

Done(r, status) == [r EXCEPT !.pc = "done", !.status = status]

\* a request arrives; its body is parsed into UploadIn or UploadUpdate
ARRIVE(i) ==
    /\ reqs[i].pc = "idle"
    /\ \E op \in {"put", "patch", "delete"} :
        \E payload \in (IF op = "delete" THEN {NoPayload} ELSE Payloads) :
            LET r == [reqs[i] EXCEPT !.op = op, !.payload = payload, !.pc = "get"]
                fits == CASE op = "put" -> UploadIn(payload)
                          [] op = "patch" -> UploadUpdate(payload)
                          [] OTHER -> TRUE
            IN reqs' = [reqs EXCEPT ![i] = IF fits THEN r ELSE Done(r, 422)]
    /\ UNCHANGED << profile, impl, is_sqlite, store, seq, now, issued, gone, last, last_commit, outside >>

\* rec = db.get(Upload, upload_id); if not rec: raise HTTPException(404)
DB_GET(i) ==
    /\ reqs[i].pc = "get"
    /\ reqs' = [reqs EXCEPT ![i] =
                  IF RaceId \notin DOMAIN store THEN Done(@, 404)
                  ELSE [@ EXCEPT !.loaded = store[RaceId], !.rec = store[RaceId],
                                 !.pc = IF reqs[i].op = "delete" THEN "commit" ELSE "validate"]]
    /\ UNCHANGED << profile, impl, is_sqlite, store, seq, now, issued, gone, last, last_commit, outside >>

\* put_upload and patch_upload from validate_payload to the assignments to rec
VALIDATE(i) ==
    /\ reqs[i].pc = "validate"
    /\ LET r == reqs[i]
           payload == r.payload
           new_workbook == IF r.op = "put" \/ payload.workbook.kind # "absent" THEN payload.workbook
                           ELSE WbStr(r.loaded.workbook)
           new_rows == IF r.op = "put" \/ payload.rows.kind # "absent" THEN payload.rows
                       ELSE RowsList(json_loads_rows(r.loaded.rows))
           new_mapping == IF r.op = "put" \/ payload.mapping.kind # "absent" THEN payload.mapping
                          ELSE MapDict(json_loads_mapping(r.loaded.mapping))
           v == validate_payload(new_workbook, new_rows, new_mapping)
       IN reqs' = [reqs EXCEPT ![i] =
                     IF v # Passed THEN Done(r, v.status)
                     ELSE [r EXCEPT !.pc = "commit",
                                    !.rec = [r.loaded EXCEPT
                                                !.workbook = new_workbook.s,
                                                !.rows = json_dumps_rows(new_rows.items),
                                                !.mapping = json_dumps_mapping(new_mapping.pairs),
                                                !.row_count = len(new_rows.items)]]]
    /\ UNCHANGED << profile, impl, is_sqlite, store, seq, now, issued, gone, last, last_commit, outside >>

\* db.delete(rec) or db.add(rec), then db.commit().  A DELETE that matches no
\* row is only warned about; an UPDATE that matches no row raises
\* StaleDataError, which no handler catches; a rec without a changed attribute
\* is not written at all.
COMMIT(i) ==
    /\ reqs[i].pc = "commit"
    /\ LET r == reqs[i] IN
       IF r.op = "delete"
       THEN /\ store' = IF RaceId \in DOMAIN store THEN Removed(RaceId) ELSE store
            /\ reqs' = [reqs EXCEPT ![i] = Done(r, 204)]
            /\ last_commit' = i
       ELSE IF dirty(r.loaded, r.rec) = {}
       THEN /\ store' = store
            /\ reqs' = [reqs EXCEPT ![i].pc = "refresh"]
            /\ last_commit' = last_commit
       ELSE IF RaceId \notin DOMAIN store
       THEN /\ store' = store
            /\ reqs' = [reqs EXCEPT ![i] = Done(r, 500)]
            /\ last_commit' = last_commit
       ELSE /\ store' = flush_update(RaceId, r.loaded, r.rec)
            /\ reqs' = [reqs EXCEPT ![i].pc = "refresh"]
            /\ last_commit' = i
    /\ UNCHANGED << profile, impl, is_sqlite, seq, now, issued, gone, last, outside >>

\* db.refresh(rec); return rec.  Refreshing a row that is gone raises
\* InvalidRequestError, which no handler catches.
REFRESH(i) ==
    /\ reqs[i].pc = "refresh"
    /\ reqs' = [reqs EXCEPT ![i] = Done(@, IF RaceId \in DOMAIN store THEN 200 ELSE 500)]
    /\ last' = IF RaceId \in DOMAIN store
               THEN Response(reqs[i].op, RaceId, Result(200, UploadOut(store[RaceId]), store), NoPayload)
               ELSE last
    /\ UNCHANGED << profile, impl, is_sqlite, store, seq, now, issued, gone, last_commit, outside >>

NextRace == \E i \in 1..MaxRequests : ARRIVE(i) \/ DB_GET(i) \/ VALIDATE(i) \/ COMMIT(i) \/ REFRESH(i)

SpecRace == InitRace /\ [][NextRace]_vars


\* ================================================== the Vanna side: strings
\* Text that the code strips, lower-cases and matches is kept as the sequence
\* of its characters.
UpperCase == << "A", "B", "C", "D", "E", "F", "G", "H", "I", "J", "K", "L", "M",
                "N", "O", "P", "Q", "R", "S", "T", "U", "V", "W", "X", "Y", "Z" >>
LowerCase == << "a", "b", "c", "d", "e", "f", "g", "h", "i", "j", "k", "l", "m",
                "n", "o", "p", "q", "r", "s", "t", "u", "v", "w", "x", "y", "z" >>
Whitespace == { " ", "\t", "\n", "\r" }

lower_char(c) ==
    IF \E i \in 1..Len(UpperCase) : UpperCase[i] = c
    THEN LowerCase[CHOOSE i \in 1..Len(UpperCase) : UpperCase[i] = c]
    ELSE c
\* str.lower()
lower(s) == [i \in 1..Len(s) |-> lower_char(s[i])]

RECURSIVE lstrip(_)
\* str.lstrip()
lstrip(s) == IF s # << >> /\ Head(s) \in Whitespace THEN lstrip(Tail(s)) ELSE s
RECURSIVE rstrip(_)
\* str.rstrip()
rstrip(s) == IF s # << >> /\ s[Len(s)] \in Whitespace THEN rstrip(SubSeq(s, 1, Len(s) - 1)) ELSE s
\* str.strip()
strip(s) == rstrip(lstrip(s))
RECURSIVE rstrip_semicolon(_)
\* str.rstrip(";")
rstrip_semicolon(s) ==
    IF s # << >> /\ s[Len(s)] = ";" THEN rstrip_semicolon(SubSeq(s, 1, Len(s) - 1)) ELSE s

\* str.startswith(prefix)
startswith(s, prefix) == Len(prefix) <= Len(s) /\ SubSeq(s, 1, Len(prefix)) = prefix
\* sub in s
contains(s, sub) == \E i \in 0..(Len(s) - Len(sub)) : SubSeq(s, i + 1, i + Len(sub)) = sub

\* ------------------------------------------------------------ Python values
None == [t |-> "none", s |-> << >>, items |-> << >>]
Str(s) == [t |-> "str", s |-> s, items |-> << >>]
PyList(items) == [t |-> "list", items |-> items, s |-> << >>]

\* bool(v)
truthy(v) == (v.t = "str" /\ v.s # << >>) \/ (v.t = "list" /\ v.items # << >>)
\* a or b
or_else(a, b) == IF truthy(a) THEN a ELSE b

\* the outcome of a call: a value, or an exception of a class with a message
Returned(v) == [raised |-> FALSE, cls |-> "", msg |-> "", value |-> v]
Raised(cls, msg) == [raised |-> TRUE, cls |-> cls, msg |-> msg, value |-> None]


\* ------------------------------------------- uploads/chart_service.py
\* What json.loads makes of the LLM's answer: nothing (it raises), a value that
\* is not an object, or an object, kept as the function from its keys to their
\* values: JStr(s), JNull or JNum.
JStr(s) == [t |-> "str", s |-> s]
JNull == [t |-> "null", s |-> ""]
JNum == [t |-> "num", s |-> "1"]
NotJson == [json |-> "invalid", obj |-> << >>]
JsonArray == [json |-> "array", obj |-> << >>]
JsonObject(obj) == [json |-> "object", obj |-> obj]

\* str(v)
py_str(v) == CASE v.t = "str" -> v.s [] v.t = "null" -> "None" [] OTHER -> v.s

\* d[k] = v
setitem(d, k, v) == [x \in (DOMAIN d) \cup {k} |-> IF x = k THEN v ELSE d[x]]
\* d.setdefault(k, v)
setdefault(d, k, v) == IF k \in DOMAIN d THEN d ELSE setitem(d, k, v)
\* d.get(k), None when absent
get(d, k) == IF k \in DOMAIN d THEN d[k] ELSE JNull

\* a row of a result: a dict, of which the keys matter, or something else
Row(keys) == [isdict |-> TRUE, keys |-> keys]
NotARow == [isdict |-> FALSE, keys |-> {}]

ChartTypes == {"bar", "line", "number", "table"}
SampleSize == 20

generate_chart_spec(question, sql, rows, api_key, llm) ==
    LET sample == SubSeq(rows.items, 1, IF Len(rows.items) < SampleSize THEN Len(rows.items) ELSE SampleSize)
        columns == UNION {sample[i].keys : i \in 1..Len(sample)}
    IN IF ~truthy(question) THEN Raised("ChartServiceError", "question is required")
       ELSE IF \E i \in 1..Len(sample) : ~sample[i].isdict THEN Raised("AttributeError", "keys")
       ELSE IF ~api_key THEN Raised("ChartServiceError", "OPENAI_API_KEY is not set")
       ELSE IF llm.raised THEN llm
       ELSE IF llm.value.json = "invalid" THEN Raised("ChartServiceError", "Chart spec is not valid JSON")
       ELSE IF llm.value.json # "object" THEN Raised("ChartServiceError", "Chart spec must be an object")
       ELSE LET spec == llm.value.obj
                chart_type == IF "type" \in DOMAIN spec THEN py_str(spec["type"]) ELSE "table"
                spec1 == IF chart_type \notin ChartTypes THEN setitem(spec, "type", JStr("table")) ELSE spec
                x_key == get(spec1, "xKey")
                y_key == get(spec1, "yKey")
                spec2 == IF x_key # JNull /\ ~(x_key.t = "str" /\ x_key.s \in columns)
                         THEN setitem(spec1, "xKey", JNull) ELSE spec1
                spec3 == IF y_key # JNull /\ ~(y_key.t = "str" /\ y_key.s \in columns)
                         THEN setitem(spec2, "yKey", JNull) ELSE spec2
                spec4 == setdefault(spec3, "title", JStr("Chart"))
            IN Returned(setdefault(spec4, "description", JStr("")))

\* ------------------------------------------------- uploads/views.py: ask
T_sql == << "s", "q", "l" >>
T_code == << "c", "o", "d", "e" >>
T_table == << "t", "a", "b", "l", "e" >>
T_data_table == << "d", "a", "t", "a", "_", "t", "a", "b", "l", "e" >>
T_dataframe == << "d", "a", "t", "a", "f", "r", "a", "m", "e" >>

\* a component of the agent's answer: a dict, of which these keys are read
\* (None where the key is absent), or something that is not a dict
Component(type, component_type, sql, content, text, rows, data, value) ==
    [isdict |-> TRUE, type |-> type, component_type |-> component_type, sql |-> sql,
     content |-> content, text |-> text, rows |-> rows, data |-> data, value |-> value]
NotADict == [isdict |-> FALSE, type |-> None, component_type |-> None, sql |-> None,
             content |-> None, text |-> None, rows |-> None, data |-> None, value |-> None]

\* one turn of the loop of _extract_sql_and_rows
extract_one(c, found) ==
    IF ~c.isdict THEN found
    ELSE LET ctype == lower(or_else(c.type, or_else(c.component_type, Str(<< >>))).s)
             maybe == or_else(c.sql, or_else(c.content, c.text))
             data == or_else(c.rows, or_else(c.data, c.value))
             sql == IF found.sql = None /\ (ctype \in {T_sql, T_code} \/ contains(ctype, T_sql))
                       /\ maybe.t = "str" /\ strip(maybe.s) # << >>
                    THEN Str(strip(maybe.s)) ELSE found.sql
             rows == IF found.rows = None
                        /\ (ctype \in {T_table, T_data_table, T_dataframe} \/ contains(ctype, T_table))
                        /\ data.t = "list"
                     THEN data ELSE found.rows
         IN [sql |-> sql, rows |-> rows]

RECURSIVE extract_from(_, _)
extract_from(components, found) ==
    IF components = << >> THEN found
    ELSE extract_from(Tail(components), extract_one(Head(components), found))

_extract_sql_and_rows(components) ==
    extract_from(or_else(components, PyList(<< >>)).items, [sql |-> None, rows |-> None])

\* the answer of the agent: an object with a components attribute, or the
\* components themselves
Answer(has_components, components) == [has_components |-> has_components, components |-> components]

AskResponse(status, body) == [status |-> status, body |-> body]
AskDetail(msg) == [detail |-> msg]
AskFailed(msg) == << "Ask failed: ", msg >>

\* the except clauses of ask
ask_except(e) ==
    IF e.cls = "VannaServiceError" THEN AskResponse(400, AskDetail(e.msg))
    ELSE AskResponse(500, AskDetail(AskFailed(e.msg)))

\* (mutant) an exception of generate_chart_spec is not caught inside
ask_chart_failure_propagates(question, service, answer, api_key, llm) ==
    IF ~(question.t = "str" /\ truthy(question)) THEN AskResponse(400, AskDetail("question is required"))
    ELSE IF service.raised THEN ask_except(service)
    ELSE IF answer.raised THEN ask_except(answer)
    ELSE LET components == answer.value.components
             found == _extract_sql_and_rows(components)
             rows == IF found.rows = None THEN PyList(<< >>) ELSE found.rows
             made == generate_chart_spec(question, found.sql, rows, api_key, llm)
         IN IF made.raised THEN ask_except(made)
            ELSE AskResponse(200, [sql |-> found.sql, rows |-> rows, chart |-> made.value,
                                   components |-> components])

\* service: the outcome of get_vanna_service(); answer: the outcome of
\* async_to_sync(service.ask)(question, request_headers, request_cookies);
\* api_key, llm: what generate_chart_spec finds in the environment and gets
\* from the LLM
ask(question, service, answer, api_key, llm) ==
    IF ~(question.t = "str" /\ truthy(question)) THEN AskResponse(400, AskDetail("question is required"))
    ELSE IF service.raised THEN ask_except(service)
    ELSE IF answer.raised THEN ask_except(answer)
    ELSE LET components == answer.value.components
             found == _extract_sql_and_rows(components)
             rows == IF found.rows = None THEN PyList(<< >>) ELSE found.rows
             made == generate_chart_spec(question, found.sql, rows, api_key, llm)
             chart == IF made.raised THEN None ELSE made.value
         IN AskResponse(200, [sql |-> found.sql, rows |-> rows, chart |-> chart,
                               components |-> components])


\* ------------------------------- uploads/vanna_service.py: VannaService.ask
T_select == << "s", "e", "l", "e", "c", "t" >>
T_with == << "w", "i", "t", "h" >>
T_insert == << "i", "n", "s", "e", "r", "t" >>
T_update == << "u", "p", "d", "a", "t", "e" >>
T_delete == << "d", "e", "l", "e", "t", "e" >>
T_create == << "c", "r", "e", "a", "t", "e" >>
T_alter == << "a", "l", "t", "e", "r" >>
T_drop == << "d", "r", "o", "p" >>
SqlKeywords == { T_select, T_with, T_insert, T_update, T_delete, T_create, T_alter, T_drop }
T_not_allowed == << "l", "l", "m", " ", "i", "s", " ", "n", "o", "t", " ", "a", "l", "l", "o", "w", "e", "d", " ", "t", "o", " ", "s", "e", "e", " ", "t", "h", "e", " ", "d", "a", "t", "a" >>
T_allow_flag == << "a", "l", "l", "o", "w", "_", "l", "l", "m", "_", "t", "o", "_", "s", "e", "e", "_", "d", "a", "t", "a" >>
T_no_context == << "p", "r", "o", "v", "i", "d", "e", "d", " ", "c", "o", "n", "t", "e", "x", "t", " ", "d", "o", "e", "s", " ", "n", "o", "t", " ", "i", "n", "c", "l", "u", "d", "e" >>
T_cannot_generate == << "c", "a", "n", "n", "o", "t", " ", "g", "e", "n", "e", "r", "a", "t", "e" >>

\* the default of max_rows
DefaultMaxRows == 200

\* an entry of vn.get_similar_question_sql: a dict that may hold a question and
\* its sql, or something that is not a dict
Similar(question, sql) == [isdict |-> TRUE, has_question |-> TRUE, has_sql |-> TRUE,
                           question |-> question, sql |-> sql]
SimilarWithoutSql(question) == [isdict |-> TRUE, has_question |-> TRUE, has_sql |-> FALSE,
                                question |-> question, sql |-> << >>]
NotASimilar == [isdict |-> FALSE, has_question |-> FALSE, has_sql |-> FALSE,
                question |-> << >>, sql |-> << >>]

\* no statement was passed to vn.run_sql
NotRun == << "<not run>" >>

\* what a call of VannaService.ask comes to: what it returns or raises, where
\* its SQL came from, the statement it passed to vn.run_sql, the number of
\* rows it returns
Called(outcome, source, ran, rows) ==
    [outcome |-> outcome, source |-> source, ran |-> ran, rows |-> rows]

\* (mutant) the safety gate is left out
VannaService_ask_without_gate(question, similar, generated, run, max_rows, allow_non_select) ==
    IF ~(question.t = "str" /\ truthy(question))
    THEN Called(Raised("VannaServiceError", "question is required"), "none", NotRun, 0)
    ELSE IF similar.raised THEN Called(similar, "none", NotRun, 0)
    ELSE LET top == IF similar.value.t = "list" /\ truthy(similar.value)
                    THEN similar.value.items[1] ELSE NotASimilar
             stored == IF top.isdict /\ top.has_sql /\ top.has_question
                          /\ lower(strip(top.question)) = lower(strip(question.s))
                       THEN rstrip_semicolon(strip(top.sql)) ELSE << >>
             source == IF stored # << >> THEN "stored" ELSE "generated"
         IN IF stored = << >> /\ generated.raised THEN Called(generated, source, NotRun, 0)
            ELSE LET sql_clean == IF stored # << >> THEN stored
                                  ELSE rstrip_semicolon(strip(generated.value.s))
                     lowered_msg == lower(sql_clean)
                     lowered == lstrip(lower(sql_clean))
                 IN
               IF contains(lowered_msg, T_not_allowed) \/ contains(lowered_msg, T_allow_flag)
               THEN Called(Raised("VannaServiceError", "the LLM is not allowed to inspect the database"),
                           source, NotRun, 0)
               ELSE IF ~\E k \in SqlKeywords : startswith(lowered_msg, k)
               THEN (IF contains(lowered_msg, T_no_context) \/ contains(lowered_msg, T_cannot_generate)
                     THEN Called(Raised("VannaServiceError", "could not generate SQL from the current context"),
                                 source, NotRun, 0)
                     ELSE Called(Raised("VannaServiceError", "Vanna did not return SQL"),
                                 source, NotRun, 0))
               ELSE IF run.raised THEN Called(run, source, sql_clean, 0)
               ELSE Called(Returned(Str(sql_clean)), source, sql_clean,
                           IF run.value > max_rows THEN max_rows ELSE run.value)

\* similar: the outcome of vn.get_similar_question_sql; generated: the outcome
\* of vn.generate_sql; run: the outcome of vn.run_sql, the number of rows of
\* its data frame
VannaService_ask(question, similar, generated, run, max_rows, allow_non_select) ==
    IF ~(question.t = "str" /\ truthy(question))
    THEN Called(Raised("VannaServiceError", "question is required"), "none", NotRun, 0)
    ELSE IF similar.raised THEN Called(similar, "none", NotRun, 0)
    ELSE LET top == IF similar.value.t = "list" /\ truthy(similar.value)
                    THEN similar.value.items[1] ELSE NotASimilar
             stored == IF top.isdict /\ top.has_sql /\ top.has_question
                          /\ lower(strip(top.question)) = lower(strip(question.s))
                       THEN rstrip_semicolon(strip(top.sql)) ELSE << >>
             source == IF stored # << >> THEN "stored" ELSE "generated"
         IN IF stored = << >> /\ generated.raised THEN Called(generated, source, NotRun, 0)
            ELSE LET sql_clean == IF stored # << >> THEN stored
                                  ELSE rstrip_semicolon(strip(generated.value.s))
                     lowered_msg == lower(sql_clean)
                     lowered == lstrip(lower(sql_clean))
                 IN
               IF contains(lowered_msg, T_not_allowed) \/ contains(lowered_msg, T_allow_flag)
               THEN Called(Raised("VannaServiceError", "the LLM is not allowed to inspect the database"),
                           source, NotRun, 0)
               ELSE IF ~\E k \in SqlKeywords : startswith(lowered_msg, k)
               THEN (IF contains(lowered_msg, T_no_context) \/ contains(lowered_msg, T_cannot_generate)
                     THEN Called(Raised("VannaServiceError", "could not generate SQL from the current context"),
                                 source, NotRun, 0)
                     ELSE Called(Raised("VannaServiceError", "Vanna did not return SQL"),
                                 source, NotRun, 0))
               ELSE IF ~allow_non_select
                       /\ ~(startswith(lowered, T_select) \/ startswith(lowered, T_with))
               THEN Called(Raised("VannaServiceError", "Refusing to run non-SELECT SQL"),
                           source, NotRun, 0)
               ELSE IF run.raised THEN Called(run, source, sql_clean, 0)
               ELSE Called(Returned(Str(sql_clean)), source, sql_clean,
                           IF run.value > max_rows THEN max_rows ELSE run.value)


\* ------------------------------------------------ questions put to ask
InitAsk == profile = "ask" /\ InitStore /\ impl = "django"

AQuestion == Str(<< "h", "o", "w", " ", "m", "a", "n", "y" >>)
QuestionIn == { None, Str(<< >>), PyList(<< >>), AQuestion }

\* components as the agent sends them
SqlComponent == Component(Str(T_sql), None, Str(<< " ", "S", "E", "L", "E", "C", "T", " ", "1", " " >>), None, None, None, None, None)
CodeComponent == Component(None, Str(<< "C", "O", "D", "E" >>), None, Str(<< "s", "e", "l", "e", "c", "t", " ", "2" >>), None, None, None, None)
BlankSqlComponent == Component(Str(T_sql), None, Str(<< " ", " " >>), None, None, None, None, None)
TableComponent ==
    Component(Str(T_table), None, None, None, None,
              PyList(<< Row({"workbook", "upload_count"}) >>), None, None)
EmptyFrameComponent == Component(Str(T_dataframe), None, None, None, None, None, PyList(<< >>), None)
SqlTableComponent ==
    Component(Str(<< "S", "q", "l", "_", "T", "a", "b", "l", "e" >>), None, None, None, Str(<< "s", "e", "l", "e", "c", "t", " ", "3" >>), None, None,
              PyList(<< Row({"workbook"}) >>))
OddRowsComponent == Component(Str(T_data_table), None, None, None, None, PyList(<< NotARow >>), None, None)

\* what the call of the agent comes to: an answer, or an exception of the
\* agent, of the LLM behind it or of the service itself
AgentAnswers ==
    { Returned(Answer(TRUE, PyList(<< SqlComponent, TableComponent >>))),
      Returned(Answer(FALSE, PyList(<< NotADict, CodeComponent, EmptyFrameComponent, TableComponent >>))),
      Returned(Answer(TRUE, PyList(<< BlankSqlComponent, SqlTableComponent >>))),
      Returned(Answer(TRUE, PyList(<< SqlComponent, OddRowsComponent >>))),
      Returned(Answer(TRUE, None)),
      Raised("VannaServiceError", "Vanna did not return SQL"),
      Raised("RateLimitError", "You exceeded your current quota"),
      Raised("TypeError", "ask() got an unexpected keyword argument 'request_headers'") }

\* get_vanna_service(): VannaService.__init__ raises without an API key, and
\* may fail to open its vector store
ServiceOutcomes(api_key) ==
    IF ~api_key THEN { Raised("VannaServiceError", "OPENAI_API_KEY is not set") }
    ELSE { Returned(None), Raised("ValueError", "Could not connect to tenant default_tenant") }

EmptyObject == [k \in {} |-> JNull]
\* what the chat completion of generate_chart_spec comes to
LlmOutcomes ==
    { Raised("APIConnectionError", "Connection error."),
      Returned(NotJson),
      Returned(JsonArray),
      Returned(JsonObject(EmptyObject)),
      Returned(JsonObject([type |-> JStr("bar"), xKey |-> JStr("workbook"),
                           yKey |-> JStr("total"), title |-> JStr("Uploads")])),
      Returned(JsonObject([type |-> JStr("pie"), xKey |-> JNum, yKey |-> JNull,
                           description |-> JNull])) }

ASK ==
    /\ profile = "ask"
    /\ \E question \in QuestionIn, api_key \in BOOLEAN, answer \in AgentAnswers, llm \in LlmOutcomes :
         \E service \in ServiceOutcomes(api_key) :
            asked' = [asked |-> TRUE, question |-> question, service |-> service,
                      answer |-> answer, api_key |-> api_key, llm |-> llm,
                      response |-> ask(question, service, answer, api_key, llm)]
    /\ UNCHANGED << profile, impl, is_sqlite, store, seq, now, issued, gone, last, in_flight, called, server_side, sse_side >>

NextAsk == ASK

SpecAsk == InitAsk /\ [][NextAsk]_vars

\* ---------------------------------------------- calls of VannaService.ask
\* what vn.generate_sql returns and what the vector store holds as sql
SqlTexts ==
    { << "S", "E", "L", "E", "C", "T", " ", "1" >>,
      << " ", " ", "s", "e", "l", "e", "c", "t", " ", "1", ";", ";", " " >>,
      << "W", "i", "t", "h", " ", "t" >>,
      << "\t", "W", "I", "T", "H", " ", "t", " ", ";" >>,
      << "D", "R", "O", "P", " ", "t", ";" >>,
      << " ", "D", "e", "l", "e", "t", "e", " ", "x" >>,
      << "i", "n", "s", "e", "r", "t", " ", "x" >>,
      << "U", "p", "d", "a", "t", "e", " ", "x" >>,
      << "c", "r", "e", "a", "t", "e", " ", "x" >>,
      << "A", "L", "T", "E", "R", " ", "x" >>,
      << "s", "e", "l", "e", "c", "t", "x" >>,
      << "(", "s", "e", "l", "e", "c", "t", " ", "1", ")" >>,
      << "I", " ", "c", "a", "n", "n", "o", "t", " ", "g", "e", "n", "e", "r", "a", "t", "e", " ", "i", "t" >>,
      << "a", "l", "l", "o", "w", "_", "l", "l", "m", "_", "t", "o", "_", "s", "e", "e", "_", "d", "a", "t", "a" >>,
      << >>,
      << " ", ";", " " >> }
StoredQuestion == << "H", "o", "w", " ", "m", "a", "n", "y" >>
SimilarOutcomes ==
    { Returned(None), Returned(PyList(<< >>)), Returned(PyList(<< NotASimilar >>)),
      Returned(PyList(<< SimilarWithoutSql(StoredQuestion) >>)),
      Raised("RuntimeError", "vector store unavailable") }
    \cup { Returned(PyList(<< Similar(StoredQuestion, s) >>)) : s \in SqlTexts }
GeneratedOutcomes ==
    { Raised("RateLimitError", "You exceeded your current quota") }
    \cup { Returned(Str(s)) : s \in SqlTexts }
\* vn.run_sql: the number of rows of the data frame, or an exception
RunOutcomes == { Returned(201), Raised("UndefinedTable", "relation does not exist") }
CallQuestionIn == { None, Str(<< " ", "h", "o", "w", " ", "M", "A", "N", "Y", " " >>), Str(<< "w", "h", "i", "c", "h" >>) }
MaxRowsIn == { DefaultMaxRows, 500 }

InitVanna == profile = "vanna" /\ InitStore /\ impl = "django"

\* a call of VannaService.ask, from its entry to its return or raise
CALL ==
    /\ profile = "vanna"
    /\ ~called.called
    /\ \E question \in CallQuestionIn, similar \in SimilarOutcomes, generated \in GeneratedOutcomes,
          run \in RunOutcomes, max_rows \in MaxRowsIn, allow_non_select \in BOOLEAN :
         called' = [called |-> TRUE, question |-> question, similar |-> similar,
                    generated |-> generated, run |-> run, max_rows |-> max_rows,
                    allow_non_select |-> allow_non_select,
                    result |-> VannaService_ask(question, similar, generated, run,
                                                max_rows, allow_non_select)]
    /\ UNCHANGED << profile, impl, is_sqlite, store, seq, now, issued, gone, last, in_flight, asked, server_side, sse_side >>

\* the caller has taken what the call came to
RETURN ==
    /\ profile = "vanna"
    /\ called.called
    /\ called' = NoCall
    /\ UNCHANGED << profile, impl, is_sqlite, store, seq, now, issued, gone, last, in_flight, asked, server_side, sse_side >>

NextVanna == CALL \/ RETURN

SpecVanna == InitVanna /\ [][NextVanna]_vars

\* ------------------- uploads/vanna_fastapi_server.py: the start of the server
\* Any thread of the process may call start_vanna_fastapi_server; a step of a
\* caller is one statement of the function.
InitServer == profile = "server" /\ InitStore /\ impl = "django"

Goto(i, label) == pc' = [pc EXCEPT ![i] = label]

\* the call begins: the caller reaches "with _lock"
ENTER(i) ==
    /\ profile = "server"
    /\ pc[i] = "idle"
    /\ Goto(i, "with _lock")
    /\ UNCHANGED << profile, impl, is_sqlite, store, seq, now, issued, gone, last, in_flight,
                    ask_side, sse_side, _started, _lock, threads, passed >>

\* (mutant) the block is entered whoever holds the lock
ACQUIRE_without_lock(i) ==
    /\ profile = "server"
    /\ pc[i] = "with _lock"
    /\ _lock' = i
    /\ Goto(i, "if _started")
    /\ UNCHANGED << profile, impl, is_sqlite, store, seq, now, issued, gone, last, in_flight,
                    ask_side, sse_side, _started, threads, passed >>

\* with _lock: blocks until the lock is free
ACQUIRE(i) ==
    /\ profile = "server"
    /\ pc[i] = "with _lock"
    /\ _lock = 0
    /\ _lock' = i
    /\ Goto(i, "if _started")
    /\ UNCHANGED << profile, impl, is_sqlite, store, seq, now, issued, gone, last, in_flight,
                    ask_side, sse_side, _started, threads, passed >>

\* if _started: return, which leaves the block and releases the lock
CHECK(i) ==
    /\ profile = "server"
    /\ pc[i] = "if _started"
    /\ IF _started
       THEN /\ Goto(i, "returned")
            /\ _lock' = IF _lock = i THEN 0 ELSE _lock
            /\ UNCHANGED passed
       ELSE /\ Goto(i, "_started = True")
            /\ passed' = passed + 1
            /\ UNCHANGED _lock
    /\ UNCHANGED << profile, impl, is_sqlite, store, seq, now, issued, gone, last, in_flight,
                    ask_side, sse_side, _started, threads >>

\* _started = True, and the block ends
SET(i) ==
    /\ profile = "server"
    /\ pc[i] = "_started = True"
    /\ _started' = TRUE
    /\ _lock' = IF _lock = i THEN 0 ELSE _lock
    /\ Goto(i, "agent")
    /\ UNCHANGED << profile, impl, is_sqlite, store, seq, now, issued, gone, last, in_flight,
                    ask_side, sse_side, threads, passed >>

\* (mutant) a call that raises gives the flag back
AGENT_resets_on_failure(i) ==
    /\ profile = "server"
    /\ pc[i] = "agent"
    /\ \E raises \in BOOLEAN :
          /\ Goto(i, IF raises THEN "raised" ELSE "Thread")
          /\ _started' = ~raises
    /\ UNCHANGED << profile, impl, is_sqlite, store, seq, now, issued, gone, last, in_flight,
                    ask_side, sse_side, _lock, threads, passed >>

\* agent = get_vanna_service().agent; server = VannaFastAPIServer(agent):
\* either raises (no API key, no such attribute) and the call ends there
AGENT(i) ==
    /\ profile = "server"
    /\ pc[i] = "agent"
    /\ \E raises \in BOOLEAN : Goto(i, IF raises THEN "raised" ELSE "Thread")
    /\ UNCHANGED << profile, impl, is_sqlite, store, seq, now, issued, gone, last, in_flight,
                    ask_side, sse_side, _started, _lock, threads, passed >>

\* t = threading.Thread(...); t.start()
THREAD_START(i) ==
    /\ profile = "server"
    /\ pc[i] = "Thread"
    /\ threads' = threads + 1
    /\ Goto(i, "done")
    /\ UNCHANGED << profile, impl, is_sqlite, store, seq, now, issued, gone, last, in_flight,
                    ask_side, sse_side, _started, _lock, passed >>

NextServer ==
    \E i \in Callers : ENTER(i) \/ ACQUIRE(i) \/ CHECK(i) \/ SET(i) \/ AGENT(i) \/ THREAD_START(i)

SpecServer == InitServer /\ [][NextServer]_vars

\* --------------------------- uploads/vanna_proxy_views.py: chat_sse
\* One request, served by a WSGI server: the server calls the view, iterates
\* the StreamingHttpResponse it returns, writes each chunk to the client and
\* calls the response's close(), which closes the generator, when the
\* iteration ends, raises, or a write fails. It learns that the client is gone
\* only from a write that fails.
InitSse == profile = "sse" /\ InitStore /\ impl = "django"

rest == << profile, impl, is_sqlite, store, seq, now, issued, gone, last, in_flight,
           ask_side, server_side >>

\* upstream = requests.request(..., stream=True, timeout=60): the response is
\* opened, or the call raises and the request ends
REQUEST ==
    /\ profile = "sse"
    /\ stage = "idle"
    /\ \E opened \in BOOLEAN :
          IF opened THEN stage' = "opened" /\ upstream' = "open"
          ELSE stage' = "finished" /\ UNCHANGED upstream
    /\ UNCHANGED << rest, gen, client, reads, gone_at, noticed >>

\* resp = StreamingHttpResponse(gen(), ...); return resp: gen() makes the
\* generator and runs none of its body
RESPOND ==
    /\ profile = "sse"
    /\ stage = "opened"
    /\ stage' = "returned"
    /\ gen' = "created"
    /\ UNCHANGED << rest, upstream, client, reads, gone_at, noticed >>

\* the server asks the response for its first chunk: the generator enters try
START ==
    /\ profile = "sse"
    /\ stage = "returned"
    /\ stage' = "iterating"
    /\ gen' = "running"
    /\ UNCHANGED << rest, upstream, client, reads, gone_at, noticed >>

\* one turn of "for chunk in upstream.iter_content(1024)": a chunk, which is
\* yielded unless it is empty; the end of the stream; or an exception of the
\* read (a broken connection, the read timeout). The last two leave the try
\* through finally: upstream.close()
READ ==
    /\ profile = "sse"
    /\ stage = "iterating" /\ gen = "running"
    /\ \E item \in {"chunk", "empty", "end", "error"} :
          CASE item = "chunk" ->
                 /\ reads < MaxChunks
                 /\ reads' = reads + 1
                 /\ gen' = "suspended"
                 /\ stage' = "writing"
                 /\ UNCHANGED upstream
            [] item = "empty" ->
                 /\ reads < MaxChunks
                 /\ reads' = reads + 1
                 /\ UNCHANGED << gen, stage, upstream >>
            [] OTHER ->
                 /\ upstream' = "closed"
                 /\ gen' = "finished"
                 /\ stage' = "closing"
                 /\ UNCHANGED reads
    /\ UNCHANGED << rest, client, gone_at, noticed >>

\* the server writes the chunk to the client and asks for the next one; a
\* write to a client that is gone fails, unless the socket still buffers it
WRITE ==
    /\ profile = "sse"
    /\ stage = "writing"
    /\ \E fails \in (IF client = "gone" THEN BOOLEAN ELSE {FALSE}) :
          IF fails THEN stage' = "closing" /\ noticed' = TRUE /\ UNCHANGED gen
          ELSE stage' = "iterating" /\ gen' = "running" /\ UNCHANGED noticed
    /\ UNCHANGED << rest, upstream, client, reads, gone_at >>

\* (mutant) the yield is not inside try/finally: closing the suspended
\* generator closes nothing
CLOSE_without_finally ==
    /\ profile = "sse"
    /\ stage = "closing"
    /\ stage' = "finished"
    /\ gen' = IF gen = "suspended" THEN "finished" ELSE gen
    /\ UNCHANGED << rest, upstream, client, reads, gone_at, noticed >>

\* the server closes the response, which closes the generator: GeneratorExit
\* is raised at the yield of a suspended generator and finally runs; a
\* generator that was never started or has finished runs nothing
CLOSE ==
    /\ profile = "sse"
    /\ stage = "closing"
    /\ stage' = "finished"
    /\ IF gen = "suspended"
       THEN gen' = "finished" /\ upstream' = "closed"
       ELSE UNCHANGED << gen, upstream >>
    /\ UNCHANGED << rest, client, reads, gone_at, noticed >>

\* the client goes away, at any moment of the request
DISCONNECT ==
    /\ profile = "sse"
    /\ stage # "finished"
    /\ client = "connected"
    /\ client' = "gone"
    /\ gone_at' = reads
    /\ UNCHANGED << rest, stage, upstream, gen, reads, noticed >>

\* the steps of the server's thread
Serve == RESPOND \/ START \/ READ \/ WRITE \/ CLOSE

NextSse == REQUEST \/ DISCONNECT \/ RESPOND \/ START \/ READ \/ WRITE \/ CLOSE

\* the server's thread keeps running, and a read of upstream returns or raises
\* within its timeout
SpecSse == InitSse /\ [][NextSse]_vars /\ WF_vars(Serve)

\* ================================================================= claims
\* the rows and the mapping a stored record holds, as values
StoredRows(rec) == IF impl = "fastapi" THEN json_loads_rows(rec.rows) ELSE rec.rows
StoredMapping(rec) == IF impl = "fastapi" THEN json_loads_mapping(rec.mapping) ELSE rec.mapping

\* C1: in every reachable state, whatever Create, Replace and Patch requests
\* were served (also ones that send a row_count of their own), every stored
\* record has row_count equal to the length of its rows.
C1_RowCountIsLen ==
    \A id \in DOMAIN store : store[id].row_count = len(StoredRows(store[id]))

\* a Patch that sent its own row_count along with rows at the limit was applied
C1_Witness ==
    /\ last.op = "patch" /\ Succeeded(last.status)
    /\ {"rows", "row_count"} \subseteq last.sent
    /\ last.id \in DOMAIN store
    /\ store[last.id].row_count = MAX_ROWS

\* C2: right after a successful Create, Get on the returned id answers with a
\* record whose row_count is len(rows) and whose workbook, mapping and rows are
\* the submitted ones.
C2_CreateThenGet ==
    (last.op = "create" /\ Succeeded(last.status)) =>
        \E g \in {Get(last.id)} :
            /\ g.status = 200
            /\ {"workbook", "rows", "mapping", "row_count"} \subseteq DOMAIN g.body
            /\ g.body.row_count = len(last.req.rows.items)
            /\ g.body.workbook = last.req.workbook.s
            /\ g.body.rows = last.req.rows.items
            /\ g.body.mapping = last.req.mapping.pairs

\* C3: the ids assigned by Create are strictly increasing, so an id that was
\* assigned and deleted is never assigned again.
C3_IdsNeverReused ==
    \A i, j \in 1..Len(issued) : i < j => issued[i] < issued[j]

\* C4: a successful Patch leaves every field it omits as it was: workbook,
\* rows (with row_count) and mapping when absent from the body, id and
\* created_at always, and every other record.
C4_PatchKeepsOmitted ==
    \A id \in DOMAIN store, p \in Payloads :
        \E r \in {Patch(id, p)} :
            Succeeded(r.status) =>
                /\ DOMAIN r.store = DOMAIN store
                /\ \A other \in DOMAIN store \ {id} : r.store[other] = store[other]
                /\ r.store[id].id = store[id].id
                /\ r.store[id].created_at = store[id].created_at
                /\ p.workbook.kind = "absent" => r.store[id].workbook = store[id].workbook
                /\ p.rows.kind = "absent" =>
                       /\ r.store[id].rows = store[id].rows
                       /\ r.store[id].row_count = store[id].row_count
                /\ p.mapping.kind = "absent" => r.store[id].mapping = store[id].mapping

\* a Patch that sent only workbook was applied to a record that has two rows
\* and a mapping with a null entry, next to another record
C4_Witness ==
    /\ last.op = "patch" /\ Succeeded(last.status)
    /\ last.sent = {"workbook"}
    /\ Cardinality(DOMAIN store) = 2
    /\ last.id \in DOMAIN store
    /\ store[last.id].workbook = "Q2"
    /\ store[last.id].row_count = 2
    /\ StoredMapping(store[last.id]) = Mapping2

GoodName(w) == w.kind = "str" /\ w.s # "" /\ Len(w.s) <= MAX_WORKBOOK_LEN
SmallMapping(m) == m.kind = "dict" /\ Len(m.pairs) <= MAX_MAPPING_KEYS
TooManyRows(p) == p.rows.kind = "list" /\ len(p.rows.items) > MAX_ROWS
RejectedWith(r, status) == r.status = status /\ r.store = store

\* C5: a Create, Replace or Patch whose rows has more than MAX_ROWS records
\* (and nothing else wrong with it) is answered 413 and leaves the store as it is.
C5_TooManyRowsRejected ==
    \A p \in Payloads :
        TooManyRows(p) =>
            /\ (GoodName(p.workbook) /\ SmallMapping(p.mapping)) =>
                   /\ RejectedWith(Create(p), 413)
                   /\ \A id \in DOMAIN store : RejectedWith(Replace(id, p), 413)
            /\ ((p.workbook.kind = "absent" \/ GoodName(p.workbook))
                    /\ (p.mapping.kind = "absent" \/ SmallMapping(p.mapping))) =>
                   \A id \in DOMAIN store : RejectedWith(Patch(id, p), 413)

BadWorkbook(p) ==
    \/ p.workbook.kind = "absent"
    \/ p.workbook.s = ""
    \/ Len(p.workbook.s) > MAX_WORKBOOK_LEN

C7_DeletedStaysGone ==
    \A id \in gone :
        /\ Get(id).status = 404
        /\ RejectedWith(Delete(id), 404)

\* a second Delete of a deleted id was answered not-found
C7_Witness ==
    /\ last.op = "delete"
    /\ last.status = 404
    /\ last.id \in gone

\* the records a workbook filter asks for (none given, or an empty one: all)
Matching(f) == {id \in DOMAIN store : f.kind = "absent" \/ f.s = "" \/ store[id].workbook = f.s}

\* C8: whatever the filter, the limit and the offset, the items of a List carry
\* no rows field and the total it reports is the number of stored records that
\* match the filter.
C8_ListTotal ==
    \A limit \in LimitIn, offset \in OffsetIn, f \in FilterIn :
        \E r \in {List(limit, offset, f)} :
            r.status = 200 =>
                /\ \A i \in 1..Len(r.items) : "rows" \notin DOMAIN r.items[i]
                /\ r.total = Cardinality(Matching(f))

\* a List with a filter that one of two records matches reported a total of 1
\* on a page that the offset left empty
C8_Witness ==
    /\ last.op = "list" /\ last.status = 200
    /\ Cardinality(DOMAIN store) = 2
    /\ last.total = 1
    /\ last.items = << >>

\* the maximum page size each service is configured with
MaxLimit == IF impl = "fastapi" THEN MAX_PAGE_SIZE ELSE DRF_MAX_LIMIT

\* C9: a List page is in descending id order, and a List that asks for more
\* than the maximum page size succeeds with at most that many items.
C9_OrderedAndClamped ==
    \A limit \in LimitIn, offset \in OffsetIn, f \in FilterIn :
        \E r \in {List(limit, offset, f)} :
            /\ r.status = 200 =>
                   /\ \A i, j \in 1..Len(r.items) : i < j => r.items[i].id > r.items[j].id
                   /\ Len(r.items) <= MaxLimit
            /\ (limit.kind = "int" /\ limit.n > MaxLimit /\ (offset.kind = "absent" \/ offset.n >= 0))
                   => r.status = 200

\* a body that has every field of the create/replace schema, of the right type
FitsUploadIn(p) == p.workbook.kind = "str" /\ p.rows.kind = "list" /\ p.mapping.kind = "dict"
\* a body whose fields, where present, have the right type
FitsUploadUpdate(p) ==
    /\ p.workbook.kind \in {"absent", "str"}
    /\ p.rows.kind \in {"absent", "list"}
    /\ p.mapping.kind \in {"absent", "dict"}

\* C10 as stated: Get, Replace, Patch and Delete on an id that is not in the
\* store are answered 404 and change nothing, whatever the body.
C10_UnknownId404 ==
    \A id \in Ids \ DOMAIN store :
        /\ RejectedWith(Get(id), 404)
        /\ RejectedWith(Delete(id), 404)
        /\ \A p \in Payloads :
            /\ RejectedWith(Replace(id, p), 404)
            /\ RejectedWith(Patch(id, p), 404)

\* C10 as amended: they change nothing, and are answered 404 whenever the body
\* fits the schema of the request (also when it would then fail validation);
\* the FastAPI service answers 422 to a Replace or Patch whose body does not fit
\* its schema, the Django service answers 404 whatever the body.
C10_UnknownIdRejected ==
    \A id \in Ids \ DOMAIN store :
        /\ RejectedWith(Get(id), 404)
        /\ RejectedWith(Delete(id), 404)
        /\ \A p \in Payloads :
            /\ RejectedWith(Replace(id, p),
                            IF impl = "fastapi" /\ ~FitsUploadIn(p) THEN 422 ELSE 404)
            /\ RejectedWith(Patch(id, p),
                            IF impl = "fastapi" /\ ~FitsUploadUpdate(p) THEN 422 ELSE 404)

\* a Replace of an id that is not in a store that holds a record was answered 404
C10_Witness ==
    /\ last.op = "put"
    /\ last.status = 404
    /\ DOMAIN store # {}
    /\ last.id \notin DOMAIN store

\* the bounds of the validation gate, on a stored record
WithinBounds(rec) ==
    /\ rec.workbook # ""
    /\ Len(rec.workbook) <= MAX_WORKBOOK_LEN
    /\ len(StoredRows(rec)) <= MAX_ROWS
    /\ Len(StoredMapping(rec)) <= MAX_MAPPING_KEYS

\* the triple a Patch is validated on: the fields it sends, the others from the record
Merged(id, p) ==
    [workbook |-> IF p.workbook.kind = "absent" THEN WbStr(store[id].workbook) ELSE p.workbook,
     rows |-> IF p.rows.kind = "absent" THEN RowsList(StoredRows(store[id])) ELSE p.rows,
     mapping |-> IF p.mapping.kind = "absent" THEN MapDict(StoredMapping(store[id])) ELSE p.mapping,
     row_count |-> p.row_count]

\* C11: a body that Create rejects is rejected with the same status by Replace,
\* and by Patch when it is what the Patch merges to, and no stored record has an
\* empty or too long workbook, more than MAX_ROWS rows or more than
\* MAX_MAPPING_KEYS mapping keys.
C11_GateKeepsBounds ==
    /\ \A id \in DOMAIN store : WithinBounds(store[id])
    /\ \A id \in DOMAIN store, p \in Payloads :
        /\ ~Succeeded(Create(p).status) => Replace(id, p).status = Create(p).status
        /\ ~Succeeded(Create(Merged(id, p)).status) =>
               Patch(id, p).status = Create(Merged(id, p)).status

\* C12: created_at is the time of the Create that stored the record, and no
\* step changes the created_at of a record that stays in the store.
C12_CreatedAtImmutable ==
    [][/\ \A id \in (DOMAIN store') \ (DOMAIN store) : store'[id].created_at = now
       /\ \A id \in (DOMAIN store) \cap (DOMAIN store') :
              store'[id].created_at = store[id].created_at]_vars

\* a Replace was applied to a record after a later Create had moved the clock on
C12_Witness ==
    /\ last.op = "put" /\ Succeeded(last.status)
    /\ last.id \in DOMAIN store
    /\ store[last.id].created_at + 1 < now

\* C13: a Create that stored an upload is answered 201 with the id, workbook,
\* row_count and created_at of the record and without its rows.
C13_Create201 ==
    (last.op = "create" /\ Succeeded(last.status)) =>
        /\ last.status = 201
        /\ {"id", "workbook", "row_count", "created_at"} \subseteq DOMAIN last.body
        /\ "rows" \notin DOMAIN last.body

AllDone == \A i \in 1..MaxRequests : reqs[i].pc = "done"

\* C14: whatever the interleaving of the steps of Replace, Patch and Delete
\* requests on one id, every committed state has row_count = len(rows), and
\* when all requests are done the record is exactly the one the request that
\* committed last had assigned (or is absent if that request was a Delete).
C14_LastWriteWins ==
    /\ \A id \in DOMAIN store : store[id].row_count = len(json_loads_rows(store[id].rows))
    /\ (AllDone /\ last_commit # 0) =>
           IF reqs[last_commit].op = "delete" THEN RaceId \notin DOMAIN store
           ELSE RaceId \in DOMAIN store /\ store[RaceId] = reqs[last_commit].rec

\* C15: a request whose write to the store fails is answered 500 by its own
\* handler, with a detail that wraps the error of the database; a request that
\* fails validation keeps the status of the validation error.
C15_PersistenceErrorCaught ==
    /\ last.status = 500 => last.body = Detail(FailedToSave(DbError))
    /\ \A p \in Payloads :
           ~Succeeded(Create(p).status) => CreateFailing(p).status = Create(p).status

\* ask got as far as the call of the agent, and the agent answered
AgentAnswered ==
    /\ asked.asked
    /\ asked.question.t = "str" /\ truthy(asked.question)
    /\ ~asked.service.raised
    /\ ~asked.answer.raised
\* what ask's extraction makes of the answer, and what generate_chart_spec
\* makes of that
Extracted == _extract_sql_and_rows(asked.answer.value.components)
ExtractedRows == IF Extracted.rows = None THEN PyList(<< >>) ELSE Extracted.rows
ChartMade == generate_chart_spec(asked.question, Extracted.sql, ExtractedRows, asked.api_key, asked.llm)

AgentFailed ==
    /\ asked.asked
    /\ asked.question.t = "str" /\ truthy(asked.question)
    /\ ~asked.service.raised
    /\ asked.answer.raised

\* C17: in the ask handler every failure of the call of the external agent or
\* LLM is answered with status 400 or 502 and a body carrying the upstream
\* message: never a success, another status class or an unhandled exception.
C17_UpstreamFailure400Or502 ==
    AgentFailed =>
        /\ asked.response.status \in {400, 502}
        /\ asked.response.body \in {AskDetail(asked.answer.msg),
                                    AskDetail(AskFailed(asked.answer.msg))}

\* the SQL a call of VannaService.ask settled on: the stored one of the
\* matching question, or the generated one
HasSql ==
    /\ called.called
    /\ called.result.source \in {"stored", "generated"}
    /\ called.result.source = "generated" => ~called.generated.raised
ChosenSql ==
    IF called.result.source = "stored"
    THEN called.similar.value.items[1].sql
    ELSE called.generated.value.s
WriteKeywords == { T_insert, T_update, T_delete, T_create, T_alter, T_drop }

\* C19: with allow_non_select false VannaService.ask passes to run_sql only
\* statements that begin, whatever their case, with select or with; stored or
\* generated SQL that begins with insert, update, delete, create, alter or
\* drop raises VannaServiceError and run_sql is not called.
C19_OnlySelectRuns ==
    (called.called /\ ~called.allow_non_select) =>
        /\ called.result.ran # NotRun =>
              \/ startswith(lower(called.result.ran), T_select)
              \/ startswith(lower(called.result.ran), T_with)
        /\ (HasSql /\ \E k \in WriteKeywords : startswith(lower(strip(ChosenSql)), k)) =>
              /\ called.result.outcome.raised
              /\ called.result.outcome.cls = "VannaServiceError"
              /\ called.result.ran = NotRun

\* the stored SQL of the matching question is a DROP, and the call refused it
C19_Witness ==
    /\ called.called /\ ~called.allow_non_select
    /\ called.result.source = "stored"
    /\ ChosenSql = << "D", "R", "O", "P", " ", "t", ";" >>
    /\ called.result.outcome.raised
    /\ called.result.outcome.msg = "Refusing to run non-SELECT SQL"
    /\ called.result.ran = NotRun

\* C20: however concurrent calls of start_vanna_fastapi_server interleave, at
\* most one call goes past the check of _started and at most one server
\* thread is ever started; every other call returns at the check, having
\* started nothing.
C20_StartedOnce ==
    /\ passed <= 1
    /\ threads <= 1
    /\ Cardinality({i \in Callers : pc[i] \in {"_started = True", "agent", "raised", "Thread", "done"}}) <= 1

\* one call went through and ended, another returned at the check and a third
\* is still on its way
C20_Witness ==
    /\ passed = 1
    /\ \E i, j, k \in Callers :
          /\ pc[i] \in {"done", "raised"}
          /\ pc[j] = "returned"
          /\ pc[k] \in {"with _lock", "if _started"}

\* C18 as stated: once the upstream response of chat_sse is open it is
\* eventually closed, whether the upstream ends, the iteration fails or the
\* client disconnects (also before the first chunk is read), and after the
\* client has disconnected no further chunk is read from upstream.
C18_ClosedAndNoReadAfterDisconnect ==
    /\ (upstream = "open") ~> (upstream = "closed")
    /\ [][client = "gone" => reads' = reads]_vars

\* C18, amended: once the upstream response of chat_sse is open it is
\* eventually closed, whether the upstream ends, the iteration fails or the
\* client disconnects (also before the first chunk is read), and after a write
\* to the client has failed no further chunk is read from upstream.
C18_ClosedAndNoReadAfterNotice ==
    /\ (upstream = "open") ~> (upstream = "closed")
    /\ [][noticed => reads' = reads]_vars

\* the client left before the first chunk was read: the chunk was read all the
\* same, its write failed, and closing the generator closed the upstream
C18_Witness ==
    /\ gone_at = 0
    /\ reads = 1
    /\ noticed
    /\ stage = "finished"
    /\ upstream = "closed"

\* generate_chart_spec was called with a question and rows it can read, and the
\* LLM answered
ChartAnswered ==
    /\ AgentAnswered
    /\ asked.api_key
    /\ ~asked.llm.raised
    /\ \A i \in 1..Len(ExtractedRows.items) : ExtractedRows.items[i].isdict
\* the column names occurring in the first 20 rows
SampleColumns ==
    UNION { ExtractedRows.items[i].keys :
              i \in 1..(IF Len(ExtractedRows.items) < SampleSize
                        THEN Len(ExtractedRows.items) ELSE SampleSize) }
KeyOk(spec, k) ==
    k \in DOMAIN spec => (spec[k] = JNull \/ (spec[k].t = "str" /\ spec[k].s \in SampleColumns))

\* C21: whatever JSON object the LLM answers with, the spec generate_chart_spec
\* returns has a type that is one of bar, line, number, table, an xKey and a
\* yKey that are null, absent or a column of the first 20 rows, and a title
\* and a description; an answer that is not JSON or not an object raises
\* ChartServiceError.
C21_ChartSpecSchema ==
    ChartAnswered =>
        IF asked.llm.value.json = "object"
        THEN /\ ~ChartMade.raised
             /\ "type" \in DOMAIN ChartMade.value
             /\ ChartMade.value["type"].t = "str"
             /\ ChartMade.value["type"].s \in ChartTypes
             /\ KeyOk(ChartMade.value, "xKey")
             /\ KeyOk(ChartMade.value, "yKey")
             /\ "title" \in DOMAIN ChartMade.value
             /\ "description" \in DOMAIN ChartMade.value
        ELSE ChartMade.raised /\ ChartMade.cls = "ChartServiceError"

\* the page sizes asked for, and page k of a listing with page size L
PageLimits == {1, 2}
PageAt(L, f, k) == List(QInt(L), QInt(k * L), f)
RECURSIVE PagesFrom(_, _, _, _)
\* the ids of pages k .. n, in the order they are returned
PagesFrom(L, f, k, n) ==
    IF k > n THEN << >>
    ELSE [i \in 1..Len(PageAt(L, f, k).items) |-> PageAt(L, f, k).items[i].id]
         \o PagesFrom(L, f, k + 1, n)

\* C22: on an unchanged store, the pages of a listing with a fixed filter and
\* limit L at offsets 0, L, 2L, ... hold every matching record exactly once in
\* strictly decreasing id order; a page holds at most L items, and a page
\* whose offset is at or past the total is empty.
C22_PagesPartition ==
    \A L \in PageLimits, f \in FilterIn :
        LET n == Cardinality(DOMAIN store)
            ids == PagesFrom(L, f, 0, n)
        IN /\ \A k \in 0..n :
                 /\ PageAt(L, f, k).status = 200
                 /\ Len(PageAt(L, f, k).items) <= L
                 /\ k * L >= Cardinality(Matching(f)) => PageAt(L, f, k).items = << >>
           /\ {ids[i] : i \in 1..Len(ids)} = Matching(f)
           /\ \A i, j \in 1..Len(ids) : i < j => ids[i] > ids[j]

\* the second page of a listing of two records by pages of one was served: it
\* holds the older record alone
C22_Witness ==
    /\ last.op = "list" /\ last.status = 200
    /\ Cardinality(DOMAIN store) >= 2
    /\ last.total = Cardinality(DOMAIN store)
    /\ Len(last.items) = 1
    /\ \E id \in DOMAIN store : last.items[1].id < id
    /\ PagesFrom(1, WbAbsent, 1, 1) = << last.items[1].id >>

\* C23: _started is set before the server is built and is never reset: once a
\* call has gone past the check, every call that reaches the check later
\* returns there and starts no thread, also when the first call raised before
\* its thread was started.
C23_StartedNeverReset ==
    [][ /\ _started => _started'
        /\ \A i \in Callers :
              /\ (pc[i] = "agent" /\ pc'[i] # "agent") => _started
              /\ (pc[i] = "Thread" /\ pc'[i] # "Thread") => _started
              /\ (passed >= 1 /\ pc[i] = "if _started" /\ pc'[i] # pc[i]) =>
                     (pc'[i] = "returned" /\ threads' = threads /\ passed' = passed)
      ]_vars

\* the call that went past the check raised, every other call has returned at
\* the check, and no thread was started
C23_Witness ==
    /\ _started
    /\ threads = 0
    /\ \E i \in Callers :
          /\ pc[i] = "raised"
          /\ \A j \in Callers \ {i} : pc[j] = "returned"

====
